---- MODULE Spec2Model ----
(***************************************************************************)
(* Hybrid Zoo v3 (src/hybrid_zoo_v3.py): the MiniRP2 symmetric delta codec *)
(* and the auto-family selector built on it.                               *)
(*                                                                         *)
(* Sample values are small integers, which float32 represents exactly, so  *)
(* every astype(np.float32) below is exact and the arithmetic on decoded   *)
(* values is exact.  Byte strings are sequences over 0..255.  The build    *)
(* modelled is the one without zstandard (HAS_ZSTD = False): the backend   *)
(* is gzip.                                                                *)
(***************************************************************************)
EXTENDS Integers, Sequences, FiniteSets, TLC

\* The codec: MiniRP2.compress and MiniRP2.decompress on one input.
\* The detail thresholding of hybrid_compress, applied repeatedly.
\* hybrid_compress: its arguments, what pywt.wavedec answers for each family,
\* the loop position and the loop's locals; hybrid_decompress.
VARIABLES
  data, pc, gain, block, seam, out, malformed,
  detail, thresh_factor, passes,
  families, wavedec, orig_len, idx, hpc,
  best_compressed, best_size, best_family, best_coeffs, best_seam,
  ret, dec

rp2vars == <<data, pc, gain, block, seam, out, malformed>>

thrvars == <<detail, thresh_factor, passes>>

bestvars == <<best_compressed, best_size, best_family, best_coeffs, best_seam>>

hybvars == <<families, wavedec, orig_len, idx, hpc, bestvars, ret, dec>>

vars == <<rp2vars, thrvars, hybvars>>

(***************************************************************************)
(* Bounds of the model.                                                    *)
(***************************************************************************)
\* sample values range over -MaxVal..MaxVal
MaxVal == 1
\* short inputs have 0..MaxShort samples
MaxShort == 2
\* long inputs have MinLen-1 .. MinLen+MaxExtra samples
MaxExtra == 2
\* a detail array has 1..MaxDetail coefficients, each in -MaxCoef..MaxCoef
MaxDetail == 3
MaxCoef == 3
\* thresh_factor ranges over k / FactorDen for k in 0..MaxFactorNum
FactorDen == 2
MaxFactorNum == 6
\* hybrid_compress is handed 0..MaxFamilies wavelet families
MaxFamilies == 2

(***************************************************************************)
(* Program constants.                                                      *)
(***************************************************************************)
\* if n < 512: return -1.0
MinLen == 512
\* n * 32 * (1 - ratio) * 0.5 - 2000
BitsPerSample == 32
HalfDen == 2
Overhead == 2000
\* data_var + 1e-10; 1e-10 = 1 / (EpsRoot * EpsRoot)
EpsRoot == 100000
\* np.median(np.abs(d)) / 0.6745; 0.6745 = MadNum / MadDen
MadNum == 1349
MadDen == 2000
\* def hybrid_compress(data, families=[...], levels=5, thresh_factor=2.0)
Levels == 5
DefaultThreshFactor == 2

Vals == (0 - MaxVal)..MaxVal

(***************************************************************************)
(* Python and numpy primitives.                                            *)
(***************************************************************************)
Min(a, b) == IF a <= b THEN a ELSE b

Max(a, b) == IF a >= b THEN a ELSE b

\* s[a:b] for 0 <= a, 0 <= b: out-of-range ends are clipped, never an error
PySlice(s, a, b) ==
  LET lo == Min(a, Len(s))
      hi == Min(b, Len(s))
  IN IF hi <= lo THEN <<>> ELSE [i \in 1..(hi - lo) |-> s[lo + i]]

\* s[:k], k of either sign
PyTake(s, k) ==
  IF k >= 0 THEN PySlice(s, 0, k) ELSE PySlice(s, 0, Max(Len(s) + k, 0))

\* s[::-1]
Reverse(s) == [i \in 1..Len(s) |-> s[Len(s) + 1 - i]]

\* -s
Neg(s) == [i \in 1..Len(s) |-> 0 - s[i]]

\* np.pad(s, (0, k)): k trailing zeros
Pad(s, k) == s \o [i \in 1..k |-> 0]

\* a - b on 1-d arrays, with numpy's broadcasting of a length-1 operand
Broadcastable(a, b) == Len(a) = Len(b) \/ Len(a) = 1 \/ Len(b) = 1

ArraySub(a, b) ==
  IF Len(a) = Len(b) THEN [i \in 1..Len(a) |-> a[i] - b[i]]
  ELSE IF Len(a) = 1 THEN [i \in 1..Len(b) |-> a[1] - b[i]]
  ELSE [i \in 1..Len(a) |-> a[i] - b[1]]

RECURSIVE SumRange(_, _, _)
SumRange(s, lo, hi) ==
  IF lo > hi THEN 0
  ELSE IF lo = hi THEN s[lo]
  ELSE LET m == (lo + hi) \div 2
       IN SumRange(s, lo, m) + SumRange(s, m + 1, hi)

Sum(s) == SumRange(s, 1, Len(s))

SumSq(s) == Sum([i \in 1..Len(s) |-> s[i] * s[i]])

\* np.var(s) * Len(s)^2, an integer: var = mean(x^2) - mean(x)^2
VarNum(s) == Len(s) * SumSq(s) - Sum(s) * Sum(s)

(***************************************************************************)
(* Exact arithmetic on naturals beyond 2^31: little-endian limbs, base     *)
(* 10000.  Every small factor below is under 200000.                       *)
(***************************************************************************)
RECURSIVE BigOf(_)
BigOf(n) == IF n = 0 THEN <<>> ELSE <<n % 10000>> \o BigOf(n \div 10000)

RECURSIVE BigMulCarry(_, _, _)
BigMulCarry(x, k, carry) ==
  IF x = <<>> THEN BigOf(carry)
  ELSE LET t == Head(x) * k + carry
       IN <<t % 10000>> \o BigMulCarry(Tail(x), k, t \div 10000)

BigMul(x, k) == BigMulCarry(x, k, 0)

RECURSIVE BigAddCarry(_, _, _)
BigAddCarry(x, y, carry) ==
  IF x = <<>> /\ y = <<>> THEN BigOf(carry)
  ELSE LET a == IF x = <<>> THEN 0 ELSE Head(x)
           b == IF y = <<>> THEN 0 ELSE Head(y)
           t == a + b + carry
       IN <<t % 10000>>
            \o BigAddCarry(IF x = <<>> THEN <<>> ELSE Tail(x),
                           IF y = <<>> THEN <<>> ELSE Tail(y), t \div 10000)

BigAdd(x, y) == BigAddCarry(x, y, 0)

RECURSIVE BigNorm(_)
BigNorm(x) ==
  IF x = <<>> THEN <<>>
  ELSE IF x[Len(x)] = 0 THEN BigNorm(SubSeq(x, 1, Len(x) - 1))
  ELSE x

RECURSIVE BigCmpAt(_, _, _)
BigCmpAt(x, y, i) ==
  IF i = 0 THEN 0
  ELSE IF x[i] < y[i] THEN 0 - 1
  ELSE IF x[i] > y[i] THEN 1
  ELSE BigCmpAt(x, y, i - 1)

\* -1, 0, 1 as x < y, x = y, x > y
BigCmp(x, y) ==
  LET a == BigNorm(x)
      b == BigNorm(y)
  IN IF Len(a) < Len(b) THEN 0 - 1
     ELSE IF Len(a) > Len(b) THEN 1
     ELSE BigCmpAt(a, b, Len(a))

(***************************************************************************)
(* astype(np.float32).tobytes() and np.frombuffer(b, np.float32):          *)
(* IEEE-754 binary32, little-endian.                                       *)
(***************************************************************************)
RECURSIVE Log2(_)
Log2(a) == IF a < 2 THEN 0 ELSE 1 + Log2(a \div 2)

F32Bytes(v) ==
  IF v = 0 THEN <<0, 0, 0, 0>>
  ELSE LET s == IF v < 0 THEN 1 ELSE 0
           a == IF v < 0 THEN 0 - v ELSE v
           e == Log2(a)
           E == e + 127
           mant == (a - 2 ^ e) * 2 ^ (23 - e)
       IN << mant % 256,
             (mant \div 256) % 256,
             (E % 2) * 128 + mant \div 65536,
             s * 128 + E \div 2 >>

\* the value of four bytes that hold an integer (the only values stored here)
F32Val(b) ==
  LET s == b[4] \div 128
      E == (b[4] % 128) * 2 + b[3] \div 128
      mant == (b[3] % 128) * 65536 + b[2] * 256 + b[1]
      e == E - 127
  IN CASE E = 0 /\ mant = 0 -> 0
       [] e >= 0 /\ e <= 23 /\ (8388608 + mant) % (2 ^ (23 - e)) = 0 ->
            (IF s = 1 THEN 0 - 1 ELSE 1) * ((8388608 + mant) \div 2 ^ (23 - e))

ToBytes(s) ==
  [i \in 1..(4 * Len(s)) |->
     LET w == F32Bytes(s[((i - 1) \div 4) + 1]) IN w[((i - 1) % 4) + 1]]

\* np.frombuffer raises ValueError unless the size is a multiple of 4
FromBufferOk(b) == Len(b) % 4 = 0

FromBuffer(b) == [i \in 1..(Len(b) \div 4) |-> F32Val(SubSeq(b, 4 * i - 3, 4 * i))]

(***************************************************************************)
(* The gzip backend, an external collaborator.  A member is modelled as    *)
(* the header bytes 1f 8b 08 00, the payload length (two bytes, little-    *)
(* endian) and the payload stored: lossless, framed, and a stream may hold *)
(* several members, as gzip.decompress accepts.                            *)
(***************************************************************************)
GzipMagic == <<31, 139, 8, 0>>

GzipCompress(b) == GzipMagic \o <<Len(b) % 256, Len(b) \div 256>> \o b

\* [ok |-> FALSE] stands for BadGzipFile, EOFError, zlib.error
RECURSIVE GzipDecompress(_)
GzipDecompress(c) ==
  IF c = <<>> THEN [ok |-> TRUE, bytes |-> <<>>]
  ELSE IF Len(c) < 6 \/ SubSeq(c, 1, 4) # GzipMagic THEN [ok |-> FALSE, bytes |-> <<>>]
  ELSE LET n == c[5] + 256 * c[6]
       IN IF Len(c) < 6 + n THEN [ok |-> FALSE, bytes |-> <<>>]
          ELSE LET rest == GzipDecompress(PySlice(c, 6 + n, Len(c)))
               IN IF rest.ok
                  THEN [ok |-> TRUE, bytes |-> PySlice(c, 6, 6 + n) \o rest.bytes]
                  ELSE rest

(***************************************************************************)
(* json.dumps(header).encode() and json.loads(...) of the block header.    *)
(***************************************************************************)
RECURSIVE Digits(_)
Digits(n) == IF n < 10 THEN <<48 + n>> ELSE Digits(n \div 10) \o <<48 + (n % 10)>>

KeyMid == <<123, 34, 109, 105, 100, 34, 58, 32>>

KeyOrigLen == <<44, 32, 34, 111, 114, 105, 103, 95, 108, 101, 110, 34, 58, 32>>

KeyLeftCLen == <<44, 32, 34, 108, 101, 102, 116, 95, 99, 95, 108, 101, 110, 34, 58, 32>>

\* {"mid": M, "orig_len": N, "left_c_len": L}
HeaderBytes(h) ==
  KeyMid \o Digits(h.mid) \o KeyOrigLen \o Digits(h.orig_len)
    \o KeyLeftCLen \o Digits(h.left_c_len) \o <<125>>

IsDigit(c) == c >= 48 /\ c <= 57

\* the first position >= i of t that holds no digit
RECURSIVE DigitsEnd(_, _)
DigitsEnd(t, i) == IF i <= Len(t) /\ IsDigit(t[i]) THEN DigitsEnd(t, i + 1) ELSE i

RECURSIVE NatOf(_, _, _)
NatOf(t, i, j) == IF j < i THEN 0 ELSE 10 * NatOf(t, i, j - 1) + (t[j] - 48)

StartsAt(t, i, k) == i + Len(k) - 1 <= Len(t) /\ SubSeq(t, i, i + Len(k) - 1) = k

\* a JSON number: digits, no leading zero
NumberAt(t, i) ==
  LET j == DigitsEnd(t, i)
  IN j > i /\ j - i <= 6 /\ (t[i] = 48 => j = i + 1)

\* the header json.dumps wrote, or ok = FALSE (UnicodeDecodeError for a byte
\* that is no ASCII, JSONDecodeError for any other text)
ParseHeader(t) ==
  LET bad == [ok |-> FALSE, mid |-> 0, orig_len |-> 0, left_c_len |-> 0]
      i1 == Len(KeyMid) + 1
      j1 == DigitsEnd(t, i1)
      i2 == j1 + Len(KeyOrigLen)
      j2 == DigitsEnd(t, i2)
      i3 == j2 + Len(KeyLeftCLen)
      j3 == DigitsEnd(t, i3)
  IN IF \E i \in 1..Len(t) : t[i] >= 128 THEN bad
     ELSE IF ~(StartsAt(t, 1, KeyMid) /\ NumberAt(t, i1)) THEN bad
     ELSE IF ~(StartsAt(t, j1, KeyOrigLen) /\ NumberAt(t, i2)) THEN bad
     ELSE IF ~(StartsAt(t, j2, KeyLeftCLen) /\ NumberAt(t, i3)) THEN bad
     ELSE IF ~(j3 = Len(t) /\ t[j3] = 125) THEN bad
     ELSE [ok |-> TRUE, mid |-> NatOf(t, i1, j1 - 1),
           orig_len |-> NatOf(t, i2, j2 - 1), left_c_len |-> NatOf(t, i3, j3 - 1)]

\* n.to_bytes(4, 'little')
IntToLE4(n) == <<n % 256, (n \div 256) % 256, (n \div 65536) % 256, n \div 16777216>>

\* int.from_bytes(b, 'little') for b of at most four bytes
RECURSIVE IntFromLE(_)
IntFromLE(b) == IF b = <<>> THEN 0 ELSE Head(b) + 256 * IntFromLE(Tail(b))

(***************************************************************************)
(* Python values that json and the codec tell apart: bytes and str.        *)
(***************************************************************************)
Bytes(b) == [type |-> "bytes", val |-> b]

Str(s) == [type |-> "str", val |-> s]

\* None is the empty option, a seam the singleton <<mid>>
None == <<>>

(***************************************************************************)
(* MiniRP2._estimate_gain.  The float it returns is read only through      *)
(* `gain < 0`, so it is kept as its sign: -1, 0 or 1.                      *)
(***************************************************************************)
\* left = data[:mid]
EstLeft(d) == PySlice(d, 0, Len(d) \div 2)

\* a slip in the mirror: the right half reversed but not negated
EstRightFNotNegated(d) ==
  LET mid == Len(d) \div 2
  IN Reverse(PySlice(d, mid, mid + Len(EstLeft(d))))

\* right_f = -data[mid:mid+len(left)][::-1]
EstRightF(d) ==
  LET mid == Len(d) \div 2
  IN Neg(Reverse(PySlice(d, mid, mid + Len(EstLeft(d)))))

\* delta = left - right_f
EstDelta(d) == ArraySub(EstLeft(d), EstRightF(d))

\* delta_var >= data_var
VarGeq(delta, d) ==
  BigCmp(BigMul(BigMul(BigOf(VarNum(delta)), Len(d)), Len(d)),
         BigMul(BigMul(BigOf(VarNum(d)), Len(delta)), Len(delta))) >= 0

\* the sign of n * 32 * (1 - ratio) * 0.5 - 2000 with
\* ratio = delta_var / (data_var + 1e-10), in exact arithmetic: the sign of
\*   (G - 2H) * m^2 * (B * E^2 + n^2)  -  G * A * n^2 * E^2
\* for G = 32 n, H = 2000, A = m^2 delta_var, B = n^2 data_var, E^2 = 1e10
GainSign(delta, d) ==
  LET n == Len(d)
      m == Len(delta)
      G == n * BitsPerSample
      keep == BigMul(BigMul(BigMul(
                BigAdd(BigMul(BigMul(BigOf(VarNum(d)), EpsRoot), EpsRoot), BigOf(n * n)),
                G - HalfDen * Overhead), m), m)
      lose == BigMul(BigMul(BigMul(BigMul(BigMul(
                BigOf(VarNum(delta)), G), n), n), EpsRoot), EpsRoot)
  IN IF G < HalfDen * Overhead THEN 0 - 1 ELSE BigCmp(keep, lose)

EstimateGain(d) ==
  IF Len(d) < MinLen THEN 0 - 1
  ELSE IF Len(EstLeft(d)) # Len(EstRightF(d)) THEN 0 - 1
  ELSE IF VarGeq(EstDelta(d), d) THEN 0 - 1
  ELSE GainSign(EstDelta(d), d)

(***************************************************************************)
(* MiniRP2.compress                                                        *)
(***************************************************************************)
\* flipped = -right[::-1] with right = data[mid:]
EncFlipped(d) == Neg(Reverse(PySlice(d, Len(d) \div 2, Len(d))))

EncLeftP(d) ==
  LET left == PySlice(d, 0, Len(d) \div 2)
      max_len == Max(Len(left), Len(EncFlipped(d)))
  IN Pad(left, max_len - Len(left))

EncFlippedP(d) ==
  LET left == PySlice(d, 0, Len(d) \div 2)
      max_len == Max(Len(left), Len(EncFlipped(d)))
  IN Pad(EncFlipped(d), max_len - Len(EncFlipped(d)))

\* delta = left_p - flipped_p
EncDelta(d) == ArraySub(EncLeftP(d), EncFlippedP(d))

\* h_len + h_bytes + c_left + c_delta
Frame(header, c_left, c_delta) ==
  IntToLE4(Len(HeaderBytes(header))) \o HeaderBytes(header) \o c_left \o c_delta

SymmetricBlock(d) ==
  LET c_left == GzipCompress(ToBytes(EncLeftP(d)))
      c_delta == GzipCompress(ToBytes(EncDelta(d)))
      header == [mid |-> Len(d) \div 2, orig_len |-> Len(d), left_c_len |-> Len(c_left)]
  IN Frame(header, c_left, c_delta)

\* the branch test of compress: `if gain < 0`
DirectChosen(g) == g < 0

Compress(d) ==
  IF DirectChosen(EstimateGain(d))
  THEN [block |-> Bytes(GzipCompress(ToBytes(d))), seam |-> None]
  ELSE [block |-> Bytes(SymmetricBlock(d)), seam |-> <<Len(d) \div 2>>]

(***************************************************************************)
(* MiniRP2.decompress.  The outcome is a sequence (kind "ok") or the raise *)
(* that ends the call, named by where it is raised:                        *)
(*   "type"    int.from_bytes / gzip.decompress handed a str (TypeError)   *)
(*   "header"  compressed[4:4+h_len].decode() or json.loads                *)
(*             (UnicodeDecodeError, JSONDecodeError)                       *)
(*   "backend" gzip.decompress (BadGzipFile, EOFError, zlib.error)         *)
(*   "value"   np.frombuffer or left_p - delta (ValueError)                *)
(***************************************************************************)
Raise(kind) == [kind |-> kind, seq |-> <<>>]

Return(s) == [kind |-> "ok", seq |-> s]

\* a slip in the truncation: the right half cut to mid elements
DecRightToMid(flipped_p, header) == PyTake(Neg(Reverse(flipped_p)), header.mid)

\* right = -flipped_p[::-1][:orig_len - mid]
DecRight(flipped_p, header) == PyTake(Neg(Reverse(flipped_p)), header.orig_len - header.mid)

\* left = left_p[:mid]
DecLeft(left_p, header) == PyTake(left_p, header.mid)

DecodeStreams(header, c_left, c_delta) ==
  LET left_z == GzipDecompress(c_left)
      delta_z == GzipDecompress(c_delta)
  IN IF ~left_z.ok \/ ~delta_z.ok THEN Raise("backend")
     ELSE IF ~FromBufferOk(left_z.bytes) \/ ~FromBufferOk(delta_z.bytes) THEN Raise("value")
     ELSE LET left_p == FromBuffer(left_z.bytes)
              delta == FromBuffer(delta_z.bytes)
          IN IF ~Broadcastable(left_p, delta) THEN Raise("value")
             ELSE LET flipped_p == ArraySub(left_p, delta)
                  IN Return(DecLeft(left_p, header) \o DecRight(flipped_p, header))

Decompress(compressed) ==
  IF compressed.type # "bytes" THEN Raise("type")
  ELSE LET c == compressed.val
           h_len == IntFromLE(PySlice(c, 0, 4))
           header == ParseHeader(PySlice(c, 4, 4 + h_len))
           left_start == 4 + h_len
           left_end == left_start + header.left_c_len
       IN IF ~header.ok THEN Raise("header")
          ELSE DecodeStreams(header, PySlice(c, left_start, left_end),
                             PySlice(c, left_end, Len(c)))

(***************************************************************************)
(* Inputs of the codec.                                                    *)
(***************************************************************************)
ShortSeqs == UNION {[1..k -> Vals] : k \in 0..MaxShort}

\* u, v, u, v, ... of length k
Pat(u, v, k) == [i \in 1..k |-> IF i % 2 = 1 THEN u ELSE v]

Shapes == {"mirror", "mirror_mid", "periodic", "half"}

LongSeq(shape, n, u, v) ==
  LET a == Pat(u, v, n \div 2)
      odd == IF n % 2 = 1 THEN <<v>> ELSE <<>>
  IN CASE shape = "mirror" -> a \o Neg(Reverse(a)) \o odd
       [] shape = "mirror_mid" -> a \o odd \o Neg(Reverse(a))
       [] shape = "periodic" -> Pat(u, v, n)
       [] shape = "half" ->
            a \o odd \o [i \in 1..(n \div 2) |->
                           IF i % 4 = 0 THEN 0 ELSE Neg(Reverse(a))[i]]

LongLens == (MinLen - 1)..(MinLen + MaxExtra)

LongSeqs == {LongSeq(sh, n, u, v) : sh \in Shapes, n \in LongLens, u \in Vals, v \in Vals}

(***************************************************************************)
(* Malformed Symmetric blocks: a well-formed block whose length prefix or  *)
(* declared left_c_len no longer fits the buffer.                          *)
(***************************************************************************)
TamperKinds ==
  {"prefix_exceeds", "prefix_short", "cut_in_header",
   "left_minus", "left_plus", "left_zero", "left_all", "left_beyond"}

Tampered(d, kind) ==
  LET c_left == GzipCompress(ToBytes(EncLeftP(d)))
      c_delta == GzipCompress(ToBytes(EncDelta(d)))
      header == [mid |-> Len(d) \div 2, orig_len |-> Len(d), left_c_len |-> Len(c_left)]
      good == Frame(header, c_left, c_delta)
      hl == Len(HeaderBytes(header))
      relen(k) == Frame([header EXCEPT !.left_c_len = k], c_left, c_delta)
  IN CASE kind = "prefix_exceeds" -> IntToLE4(Len(good)) \o PySlice(good, 4, Len(good))
       [] kind = "prefix_short" -> IntToLE4(hl - 1) \o PySlice(good, 4, Len(good))
       [] kind = "cut_in_header" -> PySlice(good, 0, 4 + hl - 1)
       [] kind = "left_minus" -> relen(Len(c_left) - 1)
       [] kind = "left_plus" -> relen(Len(c_left) + 1)
       [] kind = "left_zero" -> relen(0)
       [] kind = "left_all" -> relen(Len(c_left) + Len(c_delta))
       [] kind = "left_beyond" -> relen(Len(good))

(***************************************************************************)
(* The codec as a state machine: one input, compressed once, the block     *)
(* (as written, or tampered with) decompressed once.                       *)
(***************************************************************************)
CodecIdle ==
  /\ data = <<>>
  /\ pc = "idle"
  /\ gain = 0
  /\ block = Bytes(<<>>)
  /\ seam = None
  /\ out = Raise("none")
  /\ malformed = FALSE

ThreshIdle ==
  /\ detail = <<>>
  /\ thresh_factor = 0
  /\ passes = <<>>

HybridIdle ==
  /\ families = <<>>
  /\ wavedec = <<>>
  /\ orig_len = 0
  /\ idx = 0
  /\ hpc = "idle"
  /\ best_compressed = None
  /\ best_size = None
  /\ best_family = None
  /\ best_coeffs = None
  /\ best_seam = None
  /\ ret = None
  /\ dec = None

Init ==
  /\ data \in ShortSeqs \cup LongSeqs
  /\ pc = "start"
  /\ gain = 0
  /\ block = Bytes(<<>>)
  /\ seam = None
  /\ out = Raise("none")
  /\ malformed = FALSE
  /\ ThreshIdle
  /\ HybridIdle

DoCompress ==
  /\ pc = "start"
  /\ gain' = EstimateGain(data)
  /\ block' = Compress(data).block
  /\ seam' = Compress(data).seam
  /\ pc' = "compressed"
  /\ UNCHANGED <<data, out, malformed, thrvars, hybvars>>

Tamper ==
  /\ pc = "compressed"
  /\ seam # None
  /\ \E kind \in TamperKinds : block' = Bytes(Tampered(data, kind))
  /\ malformed' = TRUE
  /\ pc' = "tampered"
  /\ UNCHANGED <<data, gain, seam, out, thrvars, hybvars>>

DoDecompress ==
  /\ pc \in {"compressed", "tampered"}
  /\ out' = Decompress(block)
  /\ pc' = "decoded"
  /\ UNCHANGED <<data, gain, block, seam, malformed, thrvars, hybvars>>

Next == DoCompress \/ Tamper \/ DoDecompress

Spec == Init /\ [][Next]_vars

(***************************************************************************)
(* Properties of the codec.                                                *)
(***************************************************************************)
Decoded == pc = "decoded" /\ ~malformed

\* C1: whenever compress took the symmetric branch, decompress of the block
\* returns a sequence of the original length equal to the input element for
\* element, for even and odd lengths: the zero padding is cut off again.
C1_SymmetricRoundTrip ==
  (Decoded /\ seam # None) =>
    /\ out.kind = "ok"
    /\ Len(out.seq) = Len(data)
    /\ \A i \in 1..Len(data) : out.seq[i] = data[i]

\* an odd-length input went through the symmetric branch, its left half was
\* padded with a zero, and the decoder returned it
C1_Witness ==
  /\ Decoded
  /\ seam # None
  /\ Len(data) % 2 = 1
  /\ Len(EncLeftP(data)) = Len(data) \div 2 + 1
  /\ \E i \in 1..Len(data) : data[i] # 0
  /\ out.kind = "ok"

\* C2: whenever compress took the direct branch (n < 512 or a negative gain),
\* MiniRP2.decompress of the block returns the original sequence.
C2_DirectRoundTrip ==
  (Decoded /\ seam = None) =>
    /\ out.kind = "ok"
    /\ Len(out.seq) = Len(data)
    /\ \A i \in 1..Len(data) : out.seq[i] = data[i]

\* d = concat(a, -reverse(a))
IsAntiMirror(d) ==
  /\ Len(d) % 2 = 0
  /\ \A i \in 1..Len(d) : d[i] = 0 - d[Len(d) + 1 - i]

\* C6 as stated: for every sequence concat(a, -reverse(a)) with a of length
\* >= 256, whatever the values of a, the estimated gain is non-negative.
C6_MirrorGainNonNegative ==
  (pc # "start" /\ IsAntiMirror(data) /\ Len(data) >= MinLen) => gain >= 0

\* C6 as amended: the same for every a that is not all zero (a sequence of
\* positive variance); for the all-zero sequence the estimator returns the
\* negative sentinel because delta_var >= data_var holds as 0 >= 0.
C6_NonZeroMirrorGainNonNegative ==
  (/\ pc # "start"
   /\ IsAntiMirror(data)
   /\ Len(data) >= MinLen
   /\ \E i \in 1..Len(data) : data[i] # 0) => gain >= 0

C6_Witness ==
  /\ pc # "start"
  /\ IsAntiMirror(data)
  /\ Len(data) >= MinLen
  /\ \E i \in 1..Len(data) : data[i] # 0
  /\ gain >= 0

\* C8: decoding a malformed Symmetric block (a length prefix beyond the
\* buffer, a left_c_len that does not fit the rest) ends in a format error
\* raised for the header: it returns no sequence and is no backend error.
C8_MalformedIsFormatError ==
  (pc = "decoded" /\ malformed) => out.kind = "header"

\* C10: whenever the symmetric branch is taken, the delta the encoder stores
\* agrees on its first mid elements with the delta the estimator scored.
C10_EstimatorEncoderAgree ==
  (pc # "start" /\ seam # None) =>
    PySlice(EncDelta(data), 0, Len(data) \div 2) = EstDelta(data)

(***************************************************************************)
(* The detail thresholding of hybrid_compress:                             *)
(*   thresh = thresh_factor * np.median(np.abs(d)) / 0.6745                *)
(*   pywt.threshold(d, thresh, mode='soft')                                *)
(* Coefficients are rationals or NaN: an array is [unit, xs, nan] and       *)
(* stands for the values xs[i] / unit, NaN where nan[i].  thresh_factor is *)
(* k / FactorDen.                                                          *)
(***************************************************************************)
Arr(xs) == [unit |-> 1, xs |-> xs, nan |-> [i \in 1..Len(xs) |-> FALSE]]

Abs(x) == IF x < 0 THEN 0 - x ELSE x

\* s with its element at position i removed
Without(s, i) == [j \in 1..(Len(s) - 1) |-> IF j < i THEN s[j] ELSE s[j + 1]]

RECURSIVE Sorted(_)
Sorted(s) ==
  IF s = <<>> THEN <<>>
  ELSE LET i == CHOOSE k \in 1..Len(s) : \A j \in 1..Len(s) : s[k] <= s[j]
       IN <<s[i]>> \o Sorted(Without(s, i))

\* 2 * np.median(np.abs(xs)): the middle element, or the mean of the two
\* middle elements
MedianTwice(xs) ==
  LET s == Sorted([i \in 1..Len(xs) |-> Abs(xs[i])])
      n == Len(xs)
  IN IF n % 2 = 1 THEN 2 * s[(n + 1) \div 2] ELSE s[n \div 2] + s[n \div 2 + 1]

HasNaN(a) == \E i \in 1..Len(a.xs) : a.nan[i]

\* thresh = thresh_factor * median / 0.6745, as the fraction num / den with
\* thresh_factor = k / FactorDen; np.median of an array that holds a NaN is
\* NaN
Thresh(a, k) ==
  [num |-> IF HasNaN(a) THEN 0 ELSE k * MedianTwice(a.xs) * MadDen,
   den |-> FactorDen * 2 * a.unit * MadNum,
   nan |-> HasNaN(a)]

\* pywt.threshold(d, thresh, mode='soft') computes d * clip(1 - thresh/|d|, 0):
\* sign(x) * max(|x| - thresh, 0) where x # 0; 0 where x = 0 < thresh (the
\* quotient is inf, clipped); NaN where x = 0 = thresh (the quotient is 0/0)
\* and wherever x or thresh is NaN.  Values are in units of 1 / t.den.
ShrinkIsNaN(a, t, i) == a.nan[i] \/ t.nan \/ (a.xs[i] = 0 /\ t.num = 0)

SoftShrink(a, t) ==
  [unit |-> t.den,
   xs |-> [i \in 1..Len(a.xs) |->
             IF ShrinkIsNaN(a, t, i) THEN 0
             ELSE LET x == a.xs[i] * (t.den \div a.unit)
                      m == Max(Abs(x) - t.num, 0)
                  IN IF x < 0 THEN 0 - m ELSE m],
   nan |-> [i \in 1..Len(a.xs) |-> ShrinkIsNaN(a, t, i)]]

\* one pass of the loop body over a detail array
ThresholdDetail(a, k) == SoftShrink(a, Thresh(a, k))

\* equality of two arrays, the unit of a a multiple of the unit of b; a NaN
\* counted as the same as a NaN
SameArray(a, b) ==
  /\ Len(a.xs) = Len(b.xs)
  /\ \A i \in 1..Len(a.xs) :
       /\ a.nan[i] = b.nan[i]
       /\ ~a.nan[i] => a.xs[i] = b.xs[i] * (a.unit \div b.unit)

DetailArrays == UNION {[1..n -> (0 - MaxCoef)..MaxCoef] : n \in 1..MaxDetail}

ThreshInit ==
  /\ detail \in DetailArrays
  /\ thresh_factor \in 0..MaxFactorNum
  /\ passes = <<>>
  /\ CodecIdle
  /\ HybridIdle

\* threshold the array once more with the same factor
Threshold ==
  /\ Len(passes) < 2
  /\ passes' = Append(passes, ThresholdDetail(IF passes = <<>> THEN Arr(detail)
                                              ELSE passes[Len(passes)],
                                              thresh_factor))
  /\ UNCHANGED <<detail, thresh_factor, rp2vars, hybvars>>

ThreshNext == Threshold

SpecThresh == ThreshInit /\ [][ThreshNext]_vars

\* C7 as stated: for every detail array and every factor, thresholding twice
\* with the same factor gives the array that thresholding once gives.
C7_Idempotent ==
  Len(passes) = 2 => SameArray(passes[2], passes[1])

(***************************************************************************)
(* json.dumps(packed, default=lambda o: o.tolist() if hasattr(o, 'tolist') *)
(* else str(o)): bytes are not JSON values, so each is handed to the       *)
(* default hook; bytes has no tolist, so the hook answers str(o), the      *)
(* repr of the bytes object.                                               *)
(***************************************************************************)
\* '0'..'9', 'a'..'f'
HexDigit(k) == IF k < 10 THEN 48 + k ELSE 87 + k

\* the characters repr() writes for one byte, quote being the delimiter
ReprByte(c, quote) ==
  IF c = quote \/ c = 92 THEN <<92, c>>
  ELSE IF c = 9 THEN <<92, 116>>
  ELSE IF c = 10 THEN <<92, 110>>
  ELSE IF c = 13 THEN <<92, 114>>
  ELSE IF c < 32 \/ c >= 127 THEN <<92, 120, HexDigit(c \div 16), HexDigit(c % 16)>>
  ELSE <<c>>

RECURSIVE Flatten(_, _, _)
Flatten(pieces, lo, hi) ==
  IF lo > hi THEN <<>>
  ELSE IF lo = hi THEN pieces[lo]
  ELSE LET m == (lo + hi) \div 2
       IN Flatten(pieces, lo, m) \o Flatten(pieces, m + 1, hi)

\* the delimiter repr() picks: " when b holds ' and no ", else '
ReprQuote(b) ==
  LET has(q) == \E i \in 1..Len(b) : b[i] = q
  IN IF has(39) /\ ~has(34) THEN 34 ELSE 39

ReprBody(b, quote) ==
  <<98, quote>> \o Flatten([i \in 1..Len(b) |-> ReprByte(b[i], quote)], 1, Len(b)) \o <<quote>>

\* repr(b) of a bytes object: b'...' or b"..."
PyRepr(b) == ReprBody(b, ReprQuote(b))

\* the default hook of json.dumps
Default(o) == IF o.type = "bytes" THEN Str(PyRepr(o.val)) ELSE o

\* the JSON document json.dumps writes, kept as the values json.loads reads
\* back from it: strings, numbers, null and lists survive the text unchanged
JsonDumps(packed) ==
  [approx |-> Default(packed.approx),
   details |-> [i \in 1..Len(packed.details) |-> Default(packed.details[i])],
   seam |-> packed.seam,
   orig_len |-> packed.orig_len,
   wavelet |-> packed.wavelet,
   levels |-> packed.levels]

\* the length of a JSON string literal: the quotes, and \" and \\ for " and \
JsonStringLen(chars) ==
  2 + Len(chars) + Cardinality({i \in 1..Len(chars) : chars[i] \in {34, 92}})

RECURSIVE JsonListLen(_)
JsonListLen(items) ==
  IF items = <<>> THEN 0
  ELSE JsonStringLen(Head(items).val)
         + (IF Len(items) > 1 THEN 2 ELSE 0) + JsonListLen(Tail(items))

\* len(json.dumps(packed, ...).encode()) of the text
\* {"approx": "..", "details": ["..", ..], "seam": null, "orig_len": 16,
\*  "wavelet": "db4", "levels": 5}
JsonLen(doc) ==
  11 + JsonStringLen(doc.approx.val)
    + 13 + 2 + JsonListLen(doc.details)
    + 10 + (IF doc.seam = None THEN 4 ELSE Len(Digits(doc.seam[1])))
    + 14 + Len(Digits(doc.orig_len))
    + 13 + 2 + Len(doc.wavelet)
    + 12 + Len(Digits(doc.levels)) + 1

\* gzip.compress of the JSON text: the text it holds, and its length
OuterCompress(doc) ==
  [type |-> "bytes", doc |-> doc, size |-> Len(GzipCompress(<<>>)) + JsonLen(doc)]

(***************************************************************************)
(* The body of hybrid_compress's loop for one family.                      *)
(***************************************************************************)
\* thresholded values as float32 holds them; the arrays used here shrink to
\* integers
ExactInFloat32(a) == \A i \in 1..Len(a.xs) : ~a.nan[i] /\ a.xs[i] % a.unit = 0

ToInts(a) == [i \in 1..Len(a.xs) |-> a.xs[i] \div a.unit]

\* pywt.threshold(d, thresh, mode='soft') for thresh_factor = 2.0
Thresholded(d) == ThresholdDetail(Arr(d), DefaultThreshFactor * FactorDen)

\* the dict `packed`
Packed(family, coeffs, n) ==
  LET approx == coeffs[1]
      details == Tail(coeffs)
      rp2 == Compress(approx)
  IN [approx |-> rp2.block,
      details |-> [i \in 1..Len(details) |-> Bytes(ToBytes(ToInts(Thresholded(details[i]))))],
      seam |-> rp2.seam,
      orig_len |-> n,
      wavelet |-> family,
      levels |-> Levels]

PackedBytes(family, coeffs, n) == OuterCompress(JsonDumps(Packed(family, coeffs, n)))

\* a slip in the comparison: a later candidate of the same size replaces
\* the best one
NotLargerThanBest(packed_size, size) == size = None \/ packed_size <= size[1]

\* if packed_size < best_size, best_size starting at float('inf')
SmallerThanBest(packed_size, size) == size = None \/ packed_size < size[1]

\* a slip in the except clause: break instead of continue
AfterFailureBreak(i, n) == n + 1

\* except Exception: ... continue
AfterFailure(i, n) == i + 1

(***************************************************************************)
(* hybrid_decompress                                                       *)
(***************************************************************************)
\* d.encode('latin1') if isinstance(d, str) else d
DetailBuffer(d) == IF d.type = "str" THEN Bytes(d.val) ELSE d

\* np.frombuffer(gzip.decompress(approx_comp), np.float32)
DirectDecode(approx_comp) ==
  IF approx_comp.type # "bytes" THEN Raise("type")
  ELSE LET z == GzipDecompress(approx_comp.val)
       IN IF ~z.ok THEN Raise("backend")
          ELSE IF ~FromBufferOk(z.bytes) THEN Raise("value")
          ELSE Return(FromBuffer(z.bytes))

\* a slip in the dispatch: the flag read the wrong way round
SymmetricFlagInverted(packed) == packed.seam = None

\* if packed['seam'] is not None
SymmetricFlag(packed) == packed.seam # None

\* the locals of one call: packed as parsed, the branch taken for the
\* approx payload, and the outcome (the coefficients handed to pywt.waverec,
\* or the raise that ends the call)
HybridDecompress(compressed) ==
  LET packed == compressed.doc
      approx_comp == packed.approx
      branch == IF SymmetricFlag(packed) THEN "rp2" ELSE "direct"
      approx == IF branch = "rp2" THEN Decompress(approx_comp)
                ELSE DirectDecode(approx_comp)
      buffers == [i \in 1..Len(packed.details) |-> DetailBuffer(packed.details[i])]
  IN [packed |-> packed,
      branch |-> branch,
      result |->
        IF approx.kind # "ok" THEN approx
        ELSE IF \E i \in 1..Len(buffers) : ~FromBufferOk(buffers[i].val) THEN Raise("value")
        ELSE Return(<<approx.seq>> \o [i \in 1..Len(buffers) |-> FromBuffer(buffers[i].val)])]

(***************************************************************************)
(* Inputs of hybrid_compress.  pywt.wavedec is a collaborator: for each    *)
(* family it either raises or answers [cA, cD_levels, ..., cD_1].          *)
(***************************************************************************)
FamilyNames == {"sym4", "sym8"}

FamilyLists == UNION {[1..n -> FamilyNames] : n \in 0..MaxFamilies}

\* detail arrays of 2, 3, ... coefficients, every one k
SampleDetails(k) == [i \in 1..Levels |-> [j \in 1..(i + 1) |-> k]]

ApproxChoices ==
  {<<1, 2>>, <<2, 1>>, <<1, 0 - 1>>,
   LongSeq("mirror", MinLen, 1, 0), LongSeq("periodic", MinLen, 1, 1)}

WaveFail == [ok |-> FALSE, coeffs |-> <<>>]

WaveOutcomes ==
  {WaveFail} \cup
  {o \in {[ok |-> TRUE, coeffs |-> <<a>> \o SampleDetails(1)] : a \in ApproxChoices} :
     \A i \in 2..Len(o.coeffs) : ExactInFloat32(Thresholded(o.coeffs[i]))}

SignalLens == {2 * MinLen}

(***************************************************************************)
(* hybrid_compress then hybrid_decompress as a state machine: one action   *)
(* per pass of the loop, one for each way the function ends, one for the   *)
(* decoder.                                                                *)
(***************************************************************************)
HybridInit ==
  /\ families \in FamilyLists
  /\ wavedec \in [FamilyNames -> WaveOutcomes]
  /\ orig_len \in SignalLens
  /\ idx = 1
  /\ hpc = "loop"
  /\ best_compressed = None
  /\ best_size = None
  /\ best_family = None
  /\ best_coeffs = None
  /\ best_seam = None
  /\ ret = None
  /\ dec = None
  /\ CodecIdle
  /\ ThreshIdle

\* pywt.wavedec raises: the warning is printed and the loop goes on
FamilyFails ==
  /\ hpc = "loop"
  /\ idx <= Len(families)
  /\ ~wavedec[families[idx]].ok
  /\ idx' = AfterFailure(idx, Len(families))
  /\ UNCHANGED <<families, wavedec, orig_len, hpc, bestvars, ret, dec, rp2vars, thrvars>>

FamilySucceeds ==
  /\ hpc = "loop"
  /\ idx <= Len(families)
  /\ wavedec[families[idx]].ok
  /\ LET family == families[idx]
         coeffs == wavedec[family].coeffs
     IN \E packed \in {Packed(family, coeffs, orig_len)} :
        \E packed_bytes \in {OuterCompress(JsonDumps(packed))} :
          IF SmallerThanBest(packed_bytes.size, best_size)
          THEN /\ best_size' = <<packed_bytes.size>>
               /\ best_compressed' = <<packed_bytes>>
               /\ best_family' = <<family>>
               /\ best_coeffs' = <<coeffs>>
               /\ best_seam' = packed.seam
          ELSE UNCHANGED bestvars
  /\ idx' = idx + 1
  /\ UNCHANGED <<families, wavedec, orig_len, hpc, ret, dec, rp2vars, thrvars>>

\* raise RuntimeError("No wavelet family succeeded")
NoFamilySucceeded ==
  /\ hpc = "loop"
  /\ idx > Len(families)
  /\ best_compressed = None
  /\ hpc' = "raised"
  /\ UNCHANGED <<families, wavedec, orig_len, idx, bestvars, ret, dec, rp2vars, thrvars>>

\* return best_compressed, best_coeffs, best_family
ReturnBest ==
  /\ hpc = "loop"
  /\ idx > Len(families)
  /\ best_compressed # None
  /\ ret' = <<[compressed |-> best_compressed[1], coeffs |-> best_coeffs[1],
               family |-> best_family[1]]>>
  /\ hpc' = "returned"
  /\ UNCHANGED <<families, wavedec, orig_len, idx, bestvars, dec, rp2vars, thrvars>>

DoHybridDecompress ==
  /\ hpc = "returned"
  /\ dec' = <<HybridDecompress(ret[1].compressed)>>
  /\ hpc' = "decoded"
  /\ UNCHANGED <<families, wavedec, orig_len, idx, bestvars, ret, rp2vars, thrvars>>

HybridNext ==
  FamilyFails \/ FamilySucceeds \/ NoFamilySucceeded \/ ReturnBest \/ DoHybridDecompress

SpecHybrid == HybridInit /\ [][HybridNext]_vars

(***************************************************************************)
(* Properties of the selector and of the artifact.                         *)
(***************************************************************************)
Succeeded(i) == wavedec[families[i]].ok

\* the packed sizes of the first n candidates of the list (0 for one that
\* fails)
RECURSIVE SizesUpTo(_)
SizesUpTo(n) ==
  IF n = 0 THEN <<>>
  ELSE Append(SizesUpTo(n - 1),
              IF Succeeded(n)
              THEN PackedBytes(families[n], wavedec[families[n]].coeffs, orig_len).size
              ELSE 0)

CandidateSizes == SizesUpTo(Len(families))

\* i succeeds, no successful candidate is smaller, and none of the same
\* size is listed before it
IsWinner(sizes, i) ==
  /\ Succeeded(i)
  /\ \A j \in 1..Len(families) :
       Succeeded(j) => (sizes[i] < sizes[j] \/ (sizes[i] = sizes[j] /\ i <= j))

Returned == hpc \in {"returned", "decoded"}

\* C3: hybrid_decompress recovers from a packed artifact the approx payload
\* and every detail buffer as the byte sequences that were packed, with the
\* same orig_len, wavelet and seam.
C3_SerializationInvertible ==
  hpc = "decoded" =>
    LET orig == Packed(ret[1].family, ret[1].coeffs, orig_len)
        got == dec[1].packed
    IN /\ got.approx = orig.approx
       /\ Len(got.details) = Len(orig.details)
       /\ \A i \in 1..Len(orig.details) : DetailBuffer(got.details[i]) = orig.details[i]
       /\ got.orig_len = orig.orig_len
       /\ got.wavelet = orig.wavelet
       /\ got.seam = orig.seam

\* C4: when at least one candidate succeeds, the artifact, coefficients and
\* family returned are those of the successful candidate of smallest packed
\* size, the earliest listed among those of that size.
C4_SelectsSmallestEarliest ==
  Returned =>
    \A sizes \in {CandidateSizes} :
       \E i \in 1..Len(families) :
         /\ IsWinner(sizes, i)
         /\ ret[1].family = families[i]
         /\ ret[1].coeffs = wavedec[families[i]].coeffs
         /\ ret[1].compressed.size = sizes[i]
         /\ ret[1].compressed =
              PackedBytes(families[i], wavedec[families[i]].coeffs, orig_len)

\* two different families tie on the smallest size and the earlier of the
\* two is returned
C4_Witness ==
  /\ hpc = "returned"
  /\ \A sizes \in {CandidateSizes} :
       \E i, j \in 1..Len(families) :
          /\ i < j
          /\ IsWinner(sizes, i)
          /\ Succeeded(j) /\ sizes[j] = sizes[i]
          /\ families[i] # families[j]
          /\ ret[1].family = families[i]

\* C5: a candidate that raises is skipped and the loop goes on; the call
\* raises "No wavelet family succeeded" exactly when every candidate of the
\* list failed, and returns an artifact whenever one succeeded, wherever the
\* failing candidates stand in the list.
C5_FailsOnlyWhenAllFail ==
  /\ hpc = "raised" => \A i \in 1..Len(families) : ~Succeeded(i)
  /\ Returned => \E i \in 1..Len(families) : Succeeded(i)
  /\ (hpc = "loop" /\ idx > Len(families)) =>
       (best_compressed = None <=> \A i \in 1..Len(families) : ~Succeeded(i))
  /\ hpc = "loop" =>
       (best_compressed = None <=> \A i \in 1..(idx - 1) : ~Succeeded(i))

\* an artifact was returned although the first candidate failed
C5_Witness ==
  /\ hpc = "returned"
  /\ Len(families) >= 2
  /\ ~Succeeded(1)
  /\ Succeeded(Len(families))

\* C9: the approx payload kept is a Symmetric block (seam not None) exactly
\* when the estimated gain of the approximation is >= 0 and a headerless
\* Direct block (seam None) exactly when it is negative, so always Direct
\* below 512 coefficients; and hybrid_decompress takes the MiniRP2 branch
\* exactly when the stored seam is not None: the decoder's branch is the
\* encoder's.
C9_DispatchConsistent ==
  /\ best_compressed # None =>
       LET approx == best_coeffs[1][1]
           payload == best_compressed[1].doc.approx
       IN \A gain_est \in {EstimateGain(approx)} :
          /\ best_seam # None <=> gain_est >= 0
          /\ best_seam = None <=> gain_est < 0
          /\ Len(approx) < MinLen => best_seam = None
          /\ best_seam # None => best_seam = <<Len(approx) \div 2>>
          /\ best_seam = None => payload = Str(PyRepr(GzipCompress(ToBytes(approx))))
          /\ best_seam # None => payload = Str(PyRepr(SymmetricBlock(approx)))
          /\ best_compressed[1].doc.seam = best_seam
  /\ hpc = "decoded" =>
       /\ dec[1].packed.seam = best_seam
       /\ dec[1].branch = "rp2" <=> best_seam # None
       /\ dec[1].branch = "direct" <=> best_seam = None

\* an artifact whose approximation took the symmetric branch was decoded
\* through MiniRP2.decompress
C9_Witness ==
  /\ hpc = "decoded"
  /\ best_seam # None
  /\ EstimateGain(best_coeffs[1][1]) >= 0
  /\ dec[1].branch = "rp2"

====
